---- MODULE Spec2Model ----
(***************************************************************************)
(* A model of rumsim: the command parser (commands.rs), the data point     *)
(* generators (generator.rs), the Simulation pool (simulation.rs) and the  *)
(* two tasks of main.rs, `listen` and `simulate`, coupled by a tokio watch *)
(* channel; and the threaded Device (device.rs) with the Control that      *)
(* spawns and stops device threads (control.rs).                           *)
(***************************************************************************)
EXTENDS Integers, Sequences, FiniteSets, TLC

(***************************************************************************)
(* Bounds of the model.                                                    *)
(***************************************************************************)
\* Number of distinct values a modelled random draw can take.
RngMod == 3
\* Control messages the broker delivers to `listen` in one run.
MaxCmds == 2
\* Non-empty publish cycles `simulate` runs in one run.
MaxCycles == 2
\* Largest modelled duration, in seconds, of one publish cycle.
MaxElapsed == 1
\* Full cycles an instance of the two-instance runs makes after a start.
MaxRuns == 3
\* Starts of instance A in the two-instance runs.
MaxApplies == 2
\* Largest reading of the wall clock in the two-instance runs.
MaxClock == 1
\* Calls of generate made on the one generator of the single-generator runs.
MaxCalls == 203
\* Largest small number of data points of the single-device runs; the runs
\* also take the numbers around the overflow of a 16 bit doubling.
MaxDataPoints == 6
\* Calls of work made on the device of the single-device runs, and by each
\* device thread of the Control runs.
MaxWorks == 2
\* Largest number of devices a start command of the Control runs asks for.
MaxDevices == 2
\* Commands handed to Control::run in one run.
MaxControlCalls == 3
\* Largest number of arguments after the first token of a parsed command.
MaxArgs == 5

(***************************************************************************)
(* The state: the tasks of main.rs, two further Simulation instances, and  *)
(* a generator, a Device and a Control each driven on its own.             *)
(***************************************************************************)
VARIABLES
    mpc,         \* main: "select" while it awaits the two tasks, then "exited"
    lpc,         \* listen: "poll", or "done" once it has returned
    last_cmd,    \* listen: what handle_cmd made of the last payload
    ncmds,       \* control messages delivered so far
    chan,        \* the watch channel: value, version, closed (sender dropped)
    sent,        \* the values successfully sent on the channel, in order
    seen,        \* the version params_rx has marked as seen
    spc,         \* simulate: "wait", "sleep", "publish", "done", "cancelled"
    params,      \* simulate: the parameters it holds
    remainder,   \* simulate: the time it waits for a change
    elapsed,     \* simulate: start.elapsed() as the last cycle measured it
    inflight,    \* simulate: publishes issued whose future has not resolved
    simulation,  \* simulate: the Simulation and its device pool
    it,          \* simulate: the SimulationIterator of the cycle
    out,         \* the (topic, value) pairs handed to publish in this cycle
    last_publish,\* result of the last publish: "none", "ok", "err"
    log_sim,     \* the last line `simulate` logged
    waited,      \* how the last wait of `simulate` ended
    ncycles,     \* cycles over a non-empty pool started so far
    now,         \* the wall clock a run of two instances reads
    simA,        \* instance A: its Simulation
    parA,        \* instance A: the parameters of its last start
    appA,        \* instance A: number of starts so far
    preA,        \* instance A: full cycles it had made before its last start
    cycA,        \* instance A: full cycles since its last start
    outA,        \* instance A: the (topic, value) pairs of its last cycle
    simB,        \* instance B, started once: its Simulation
    parB,        \* instance B: the parameters of its start
    appB,        \* instance B: number of starts so far
    cycB,        \* instance B: full cycles since its start
    outB,        \* instance B: the (topic, value) pairs of its last cycle
    gen,         \* the single generator: its state, kind "none" before create
    calls,       \* the single generator: calls of generate so far
    phase,       \* the single generator: the index its last call computed with
    drawn_at,    \* the single generator: the calls that drew a new status value
    overflow_checks, \* the build: whether arithmetic overflow panics
    target,      \* the single device: the Target it is built for
    device,      \* the single device: state "none", "built" or "panicked"
    published,   \* the single device: the publishes of its last call of work
    works,       \* the single device: calls of work so far
    control,     \* Control: target, threads (join handles), channels (senders)
    cpc,         \* the caller of Control: "none", "idle", "stop_send",
                 \* "stop_join", "start_spawn", "panicked"
    ccall,       \* the command Control::run was last called with, and the
                 \* number of threads held when it was called
    ncalls,      \* calls of Control::run so far
    thr,         \* the device threads spawned by the last start, by number
    cmd_input,   \* the parser: the command string last handed to parse
    parsed       \* the parser: what parse returned for it

vars == <<mpc, lpc, last_cmd, ncmds, chan, sent, seen, spc, params, remainder,
          elapsed, inflight, simulation, it, out, last_publish, log_sim, waited,
          ncycles,
          now, simA, parA, appA, preA, cycA, outA, simB, parB, appB, cycB, outB,
          gen, calls, phase, drawn_at,
          overflow_checks, target, device, published, works,
          control, cpc, ccall, ncalls, thr,
          cmd_input, parsed>>

main_vars == <<mpc, lpc, last_cmd, ncmds, chan, sent, seen, spc, params,
               remainder, elapsed, inflight, simulation, it, out, last_publish, log_sim, waited,
               ncycles>>

instance_vars == <<now, simA, parA, appA, preA, cycA, outA, simB, parB, appB, cycB, outB>>

generator_vars == <<gen, calls, phase, drawn_at>>

device_vars == <<target, device, published, works>>

control_vars == <<control, cpc, ccall, ncalls, thr>>

parse_vars == <<cmd_input, parsed>>

\* The state of the runs that drive one unit (a generator, a device, a
\* Control) on its own, and the build they run in.
unit_vars == <<overflow_checks, generator_vars, device_vars, control_vars,
               parse_vars>>

(***************************************************************************)
(* rand::StdRng, as a deterministic function of its seed and position.     *)
(***************************************************************************)
SeedFromU64(seed) == [seed |-> seed, pos |-> 0]

RngGen(rng) == (rng.seed * 5 + rng.pos * 7 + 1) % RngMod

RngNext(rng) == [rng EXCEPT !.pos = @ + 1]

\* DefaultHasher over (client_id, seed): fixed keys, so a function of both.
HashIdSeed(client_id, seed) == (client_id * 7 + seed * 5 + 2) % RngMod

(***************************************************************************)
(* generator.rs                                                            *)
(***************************************************************************)
SPREAD == 100
SUSTAIN == 100

NoiseGeneratorNew(seed) ==
    [kind |-> "noise", name |-> <<"noise_", seed>>,
     rng |-> SeedFromU64(seed), index |-> 0, current_value |-> 0]

SensorGeneratorNew(seed) ==
    [kind |-> "sensor", name |-> <<"sensor_", seed>>,
     rng |-> SeedFromU64(seed), index |-> 0, current_value |-> 0]

StatusGeneratorNew(seed) ==
    [kind |-> "status", name |-> <<"status_", seed>>,
     rng |-> SeedFromU64(seed), index |-> 0, current_value |-> 0]

create(generator_type, seed) ==
    CASE generator_type = "noise" -> NoiseGeneratorNew(seed)
      [] generator_type = "sensor" -> SensorGeneratorNew(seed)
      [] generator_type = "status" -> StatusGeneratorNew(seed)

\* A noise generator that draws from the clock instead of its seeded stream.
NoiseGenerateFromClock(g) ==
    [gen |-> [g EXCEPT !.rng = RngNext(@)], value |-> (RngGen(g.rng) + now) % RngMod]

\* The value is a 16 bit draw.
NoiseGenerate(g) ==
    [gen |-> [g EXCEPT !.rng = RngNext(@)], value |-> RngGen(g.rng)]

\* The value is a function of the phase index and of one jitter draw; the
\* pair is kept injectively, so equal values mean equal phase and draw.
SensorValue(index, jitter) == index * RngMod + jitter

SensorGenerate(g) ==
    [gen |-> [g EXCEPT !.rng = RngNext(@),
                       !.index = IF g.index = SPREAD THEN 0 ELSE g.index + 1],
     value |-> SensorValue(g.index, RngGen(g.rng))]

StatusGenerate(g) ==
    IF g.index = SUSTAIN
    THEN [gen |-> [g EXCEPT !.index = 0, !.current_value = RngGen(g.rng),
                            !.rng = RngNext(@)],
          value |-> RngGen(g.rng)]
    ELSE [gen |-> [g EXCEPT !.index = g.index + 1], value |-> g.current_value]

generate(g) ==
    CASE g.kind = "noise" -> NoiseGenerate(g)
      [] g.kind = "sensor" -> SensorGenerate(g)
      [] g.kind = "status" -> StatusGenerate(g)

(***************************************************************************)
(* device.rs                                                               *)
(***************************************************************************)
U16 == 65536

\* 2 * data_points in the type of data_points (16 bit unsigned, wrapping).
TwiceU16(data_points) == (2 * data_points) % U16

\* The seed drawn for the k-th generator (k from 1) of a device.
GeneratorSeed(seed, k) == RngGen([seed |-> seed, pos |-> k - 1])

\* The three loops of create_data_point_generators, as the lengths of the
\* three blocks they push.
StatusCount(data_points) == data_points \div 3

NoiseCount(data_points) ==
    IF TwiceU16(data_points) \div 3 > data_points \div 3
    THEN TwiceU16(data_points) \div 3 - data_points \div 3 ELSE 0

SensorCount(data_points) ==
    IF data_points > TwiceU16(data_points) \div 3
    THEN data_points - TwiceU16(data_points) \div 3 ELSE 0

create_data_point_generators(seed, data_points) ==
    [k \in 1..(StatusCount(data_points) + NoiseCount(data_points)
               + SensorCount(data_points)) |->
        IF k <= StatusCount(data_points)
        THEN create("status", GeneratorSeed(seed, k))
        ELSE IF k <= StatusCount(data_points) + NoiseCount(data_points)
             THEN create("noise", GeneratorSeed(seed, k))
             ELSE create("sensor", GeneratorSeed(seed, k))]

\* 2 * data_points does not fit the 16 bit type of data_points: a build with
\* overflow checks panics there, a build without them wraps.
TwiceOverflows(data_points) == 2 * data_points >= U16

\* Device::new of device.rs, for a thread and a Target: the device, or the
\* panic of create_data_point_generators.
DeviceNewForTarget(thread_id, tgt, checks) ==
    IF checks /\ TwiceOverflows(tgt.data_points)
    THEN [state |-> "panicked"]
    ELSE [state |-> "built",
          thread_id |-> thread_id,
          name |-> <<"/device_", thread_id, "/">>,
          generators |-> create_data_point_generators(tgt.seed, tgt.data_points),
          wait_time_secs |-> tgt.wait_time_secs]

\* Device::work: every generator is asked once, in order, and its value
\* published under the device's name and the generator's.
DeviceWorkPublishes(dev) ==
    [k \in 1..Len(dev.generators) |->
        [topic |-> <<dev.name, dev.generators[k].name>>,
         data |-> [ts |-> now, value |-> generate(dev.generators[k]).value]]]

DeviceWorkGenerators(dev) ==
    [k \in 1..Len(dev.generators) |-> generate(dev.generators[k]).gen]

\* Device::new as simulation.rs calls it: identity and generators.
DeviceNew(client_id, i, data_points, seed) ==
    [name |-> <<client_id, i>>,
     generators |-> create_data_point_generators(seed, data_points)]

(***************************************************************************)
(* simulation.rs                                                           *)
(***************************************************************************)
\* Duration::MAX: longer than every modelled time; a timeout of it never fires.
DurationMax == 1000000

SimulationParametersDefault ==
    [devices |-> 0, data_points |-> 0, wait_time |-> DurationMax, seed |-> 0]

SimulationNew(client_id) == [client_id |-> client_id, devices |-> <<>>]

\* The seed drawn from the master stream for device i (i from 0).
DeviceSeed(client_id, seed, i) ==
    RngGen([seed |-> HashIdSeed(client_id, seed), pos |-> i])

\* A start whose loop over the devices stops one short.
SimulationStartOneShort(sim, param) ==
    [sim EXCEPT !.devices =
        [k \in 1..(param.devices - 1) |->
            DeviceNew(sim.client_id, k - 1, param.data_points,
                      DeviceSeed(sim.client_id, param.seed, k - 1))]]

\* An incremental start: a device that exists with the wanted number of
\* data points is kept, only the others are built.
SimulationStartKeepDevices(sim, param) ==
    [sim EXCEPT !.devices =
        [k \in 1..param.devices |->
            IF k <= Len(sim.devices)
               /\ Len(sim.devices[k].generators) = param.data_points
            THEN sim.devices[k]
            ELSE DeviceNew(sim.client_id, k - 1, param.data_points,
                           DeviceSeed(sim.client_id, param.seed, k - 1))]]

SimulationStart(sim, param) ==
    [sim EXCEPT !.devices =
        [k \in 1..param.devices |->
            DeviceNew(sim.client_id, k - 1, param.data_points,
                      DeviceSeed(sim.client_id, param.seed, k - 1))]]

SimulationStop(sim) == [sim EXCEPT !.devices = <<>>]

\* Simulation::iter: no device taken yet, no device iterator.
SimulationIter == [dev |-> 0, nxt |-> 1]

\* A next that gives up when the device at hand is exhausted instead of
\* taking the next device from the pool.
IterSeekOneDevice(sim, at) ==
    IF at.dev = 0 /\ Len(sim.devices) >= 1
       /\ Len(sim.devices[1].generators) >= 1
    THEN [dev |-> 1, nxt |-> 1]
    ELSE IF at.dev >= 1 /\ at.dev <= Len(sim.devices)
            /\ at.nxt <= Len(sim.devices[at.dev].generators)
         THEN at
         ELSE [dev |-> Len(sim.devices) + 1, nxt |-> 1]

\* The loop of SimulationIterator::next: the position of the next data
\* point, or a position past the last device when there is none.
RECURSIVE IterSeek(_, _)
IterSeek(sim, at) ==
    IF at.dev >= 1 /\ at.dev <= Len(sim.devices)
       /\ at.nxt <= Len(sim.devices[at.dev].generators)
    THEN at
    ELSE IF at.dev < Len(sim.devices)
         THEN IterSeek(sim, [dev |-> at.dev + 1, nxt |-> 1])
         ELSE [dev |-> Len(sim.devices) + 1, nxt |-> 1]

IterHasNext(sim, at) == IterSeek(sim, at).dev <= Len(sim.devices)

\* The (topic, data) pair the iterator yields at a position; the data is
\* the time of the clock and the value of the generator.
IterItem(sim, pos) ==
    [topic |-> <<sim.devices[pos.dev].name,
                 sim.devices[pos.dev].generators[pos.nxt].name>>,
     data |-> [ts |-> now,
               value |-> generate(sim.devices[pos.dev].generators[pos.nxt]).value]]

\* The pool after the generator at a position has produced its value.
IterAdvance(sim, pos) ==
    [sim EXCEPT !.devices[pos.dev].generators[pos.nxt] = generate(@).gen]

(***************************************************************************)
(* commands.rs: a command string is a sequence of characters.              *)
(***************************************************************************)
\* A byte that is no UTF-8: String::from_utf8 fails on a payload holding it.
InvalidByte == "\\xFF"

FromUtf8Ok(payload) == \A i \in 1..Len(payload) : payload[i] # InvalidByte

IsWhitespace(c) == c \in {" ", "\t", "\n"}

\* str::split_whitespace: the maximal runs of non-whitespace characters.
RECURSIVE SplitFrom(_, _, _, _)
SplitFrom(s, i, cur, acc) ==
    IF i > Len(s)
    THEN IF cur = <<>> THEN acc ELSE Append(acc, cur)
    ELSE IF IsWhitespace(s[i])
         THEN SplitFrom(s, i + 1, <<>>, IF cur = <<>> THEN acc ELSE Append(acc, cur))
         ELSE SplitFrom(s, i + 1, Append(cur, s[i]), acc)

split_whitespace(s) == SplitFrom(s, 1, <<>>, <<>>)

DigitChars == <<"0", "1", "2", "3", "4", "5", "6", "7", "8", "9">>

IsDigit(c) == \E d \in 1..Len(DigitChars) : DigitChars[d] = c

DigitValue(c) == (CHOOSE d \in 1..Len(DigitChars) : DigitChars[d] = c) - 1

\* The digits of an unsigned integer, most significant first, folded with
\* the overflow check of the target type; -1 is the parse error.
RECURSIVE ParseDigits(_, _, _, _)
ParseDigits(tok, i, acc, max) ==
    IF i > Len(tok) THEN acc
    ELSE IF ~IsDigit(tok[i]) THEN -1
    ELSE IF acc > (max - DigitValue(tok[i])) \div 10 THEN -1
    ELSE ParseDigits(tok, i + 1, acc * 10 + DigitValue(tok[i]), max)

\* str::parse for an unsigned integer type whose largest value is max: an
\* optional "+", then at least one digit.
ParseUnsigned(tok, max) ==
    IF tok = <<>> THEN -1
    ELSE IF tok[1] = "+"
         THEN IF Len(tok) = 1 THEN -1 ELSE ParseDigits(tok, 2, 0, max)
         ELSE ParseDigits(tok, 1, 0, max)

U16Max == U16 - 1

\* usize::MAX and u64::MAX are beyond the 32 bit integers of TLC; the
\* tokens of the model denote numbers up to 2^31 - 1, which both types hold.
WordMax == 2147483647

CommandErr(e) == [tag |-> "Err", err |-> e, params |-> SimulationParametersDefault]

CommandStart(p) == [tag |-> "Start", err |-> "none", params |-> p]

CommandStop == [tag |-> "Stop", err |-> "none", params |-> SimulationParametersDefault]

parse_start(parts) ==
    IF Len(parts) # 4 /\ Len(parts) # 5 THEN CommandErr("InvalidArguments")
    ELSE IF ParseUnsigned(parts[2], WordMax) < 0 THEN CommandErr("InvalidArguments")
    ELSE IF ParseUnsigned(parts[3], WordMax) < 0 THEN CommandErr("InvalidArguments")
    ELSE IF ParseUnsigned(parts[4], U16Max) < 0 THEN CommandErr("InvalidArguments")
    ELSE IF Len(parts) = 5 /\ ParseUnsigned(parts[5], WordMax) < 0
         THEN CommandErr("InvalidArguments")
    ELSE CommandStart([devices |-> ParseUnsigned(parts[2], WordMax),
                       data_points |-> ParseUnsigned(parts[3], WordMax),
                       wait_time |-> ParseUnsigned(parts[4], U16Max),
                       seed |-> IF Len(parts) = 5
                                THEN ParseUnsigned(parts[5], WordMax) ELSE 1])

parse(command_str) ==
    IF split_whitespace(command_str) = <<>> THEN CommandErr("EmptyCommand")
    ELSE IF split_whitespace(command_str)[1] = <<"s", "t", "a", "r", "t">>
         THEN parse_start(split_whitespace(command_str))
    ELSE IF split_whitespace(command_str)[1] = <<"s", "t", "o", "p">>
         THEN CommandStop
    ELSE CommandErr("UnknownCommand")

(***************************************************************************)
(* main.rs: the tasks `listen` and `simulate` and the watch channel.       *)
(***************************************************************************)
listen_vars == <<lpc, last_cmd, ncmds, chan, sent>>

simulate_vars == <<seen, spc, params, remainder, elapsed, inflight, simulation, it, out,
                   last_publish, log_sim, waited, ncycles>>

\* CONFIG.client_id, as the number of the instance.
ClientId == 0

\* The control messages the broker delivers in the model.
Payloads ==
    { <<"s","t","a","r","t"," ","1"," ","3"," ","1">>,
      <<"s","t","a","r","t"," ","2"," ","1"," ","0"," ","2">>,
      <<"s","t","a","r","t"," ","0"," ","0"," ","0">>,
      <<"s","t","a","r","t"," ","0"," ","2"," ","1">>,
      <<"s","t","o","p">>,
      <<>>,
      <<"f","o","o"," ","1","0","0","!">>,
      <<"s","t","a","r","t"," ","f","o","o">>,
      <<"s","t","a","r","t"," ","1"," ","1"," ","6","5","5","3","6">>,
      <<"s","t","o","p", InvalidByte>> }

InitMain ==
    /\ mpc = "select"
    /\ lpc = "poll"
    /\ last_cmd = "none"
    /\ ncmds = 0
    /\ chan = [value |-> SimulationParametersDefault, version |-> 0, closed |-> FALSE]
    /\ sent = <<>>
    /\ seen = 0
    /\ spc = "wait"
    /\ params = SimulationParametersDefault
    /\ remainder = SimulationParametersDefault.wait_time
    /\ elapsed = 0
    /\ inflight = 0
    /\ simulation = SimulationNew(ClientId)
    /\ it = SimulationIter
    /\ out = <<>>
    /\ last_publish = "none"
    /\ log_sim = "none"
    /\ waited = "none"
    /\ ncycles = 0

\* Two Simulation instances right after Simulation::new.
InitInstances ==
    /\ now = 0
    /\ simA = SimulationNew(ClientId) /\ simB = SimulationNew(ClientId)
    /\ parA = SimulationParametersDefault /\ parB = SimulationParametersDefault
    /\ appA = 0 /\ appB = 0 /\ preA = 0
    /\ cycA = 0 /\ cycB = 0
    /\ outA = <<>> /\ outB = <<>>

\* No generator made yet.
InitGenerator ==
    /\ gen = [kind |-> "none"]
    /\ calls = 0
    /\ phase = 0
    /\ drawn_at = {}

\* No device made yet.
InitDevice ==
    /\ overflow_checks = FALSE
    /\ target = [seed |-> 0, data_points |-> 0, wait_time_secs |-> 0]
    /\ device = [state |-> "none"]
    /\ published = <<>>
    /\ works = 0

\* No Control made yet.
InitControl ==
    /\ control = [target |-> [seed |-> 0, data_points |-> 0, wait_time_secs |-> 0],
                  threads |-> <<>>, channels |-> <<>>]
    /\ cpc = "none"
    /\ ccall = [cmd |-> [tag |-> "none"], before |-> 0]
    /\ ncalls = 0
    /\ thr = <<>>

\* Nothing parsed yet.
InitParse ==
    /\ cmd_input = <<>>
    /\ parsed = [tag |-> "none"]

Init ==
    InitMain /\ InitInstances /\ InitGenerator /\ InitDevice /\ InitControl
    /\ InitParse

\* watch::Sender::send: fails when every receiver is dropped, else replaces
\* the value and raises the version.
ReceiverAlive == spc \notin {"done", "cancelled"}

\* A send that leaves a value nobody has read yet in the slot.
WatchSendKeepUnread(ch, value) ==
    IF ch.version # seen
    THEN [ch EXCEPT !.version = @ + 1]
    ELSE [ch EXCEPT !.value = value, !.version = @ + 1]

WatchSend(ch, value) == [ch EXCEPT !.value = value, !.version = @ + 1]

\* Dropping the sender closes the channel.
WatchClose(ch) == [ch EXCEPT !.closed = TRUE]

\* A handle_cmd that treats every payload it cannot use as a stop.
HandleCmdStopOnInvalid(payload) ==
    IF ~FromUtf8Ok(payload)
    THEN [outcome |-> "NotUtf8", send |-> TRUE, value |-> SimulationParametersDefault]
    ELSE IF parse(payload).tag = "Start"
    THEN [outcome |-> "Start", send |-> TRUE, value |-> parse(payload).params]
    ELSE IF parse(payload).tag = "Stop"
    THEN [outcome |-> "Stop", send |-> TRUE, value |-> SimulationParametersDefault]
    ELSE [outcome |-> parse(payload).err, send |-> TRUE,
          value |-> SimulationParametersDefault]

\* handle_cmd: what it sends, if anything.
HandleCmd(payload) ==
    IF ~FromUtf8Ok(payload)
    THEN [outcome |-> "NotUtf8", send |-> FALSE, value |-> SimulationParametersDefault]
    ELSE IF parse(payload).tag = "Start"
    THEN [outcome |-> "Start", send |-> TRUE, value |-> parse(payload).params]
    ELSE IF parse(payload).tag = "Stop"
    THEN [outcome |-> "Stop", send |-> TRUE, value |-> SimulationParametersDefault]
    ELSE [outcome |-> parse(payload).err, send |-> FALSE,
          value |-> SimulationParametersDefault]

\* listen: an incoming publish, handled by handle_cmd.
ListenPublish ==
    /\ mpc = "select" /\ lpc = "poll" /\ ncmds < MaxCmds
    /\ \E payload \in Payloads :
        /\ last_cmd' = HandleCmd(payload).outcome
        /\ ncmds' = ncmds + 1
        /\ IF ~HandleCmd(payload).send
           THEN UNCHANGED <<lpc, chan, sent>>
           ELSE IF ReceiverAlive
           THEN /\ chan' = WatchSend(chan, HandleCmd(payload).value)
                /\ sent' = Append(sent, HandleCmd(payload).value)
                /\ lpc' = lpc
           ELSE /\ lpc' = "done"
                /\ chan' = WatchClose(chan)
                /\ sent' = sent
    /\ UNCHANGED <<unit_vars, instance_vars, mpc, simulate_vars>>

\* listen: the broker disconnects.
ListenDisconnect ==
    /\ mpc = "select" /\ lpc = "poll"
    /\ lpc' = "done"
    /\ chan' = WatchClose(chan)
    /\ UNCHANGED <<unit_vars, instance_vars, mpc, last_cmd, ncmds, sent, simulate_vars>>

\* listen: the event loop reports an error.
ListenError ==
    /\ mpc = "select" /\ lpc = "poll"
    /\ lpc' = "done"
    /\ chan' = WatchClose(chan)
    /\ UNCHANGED <<unit_vars, instance_vars, mpc, last_cmd, ncmds, sent, simulate_vars>>

\* listen: any other event.
ListenOther ==
    /\ mpc = "select" /\ lpc = "poll"
    /\ UNCHANGED vars

\* timeout(remainder, params_rx.changed()) is Ok(_): the version changed, or
\* the sender is dropped and changed() is an error inside the Ok.
ChangedReady == chan.version # seen \/ chan.closed

BeginCycle ==
    /\ spc' = "publish"
    /\ it' = SimulationIter
    /\ out' = <<>>
    /\ log_sim' = "Running simulation"

\* simulate: the change branch with devices > 0, then on into the cycle.
SimApplyStart ==
    /\ mpc = "select" /\ spc = "wait" /\ ChangedReady
    /\ chan.value.devices > 0
    /\ ncycles < MaxCycles
    /\ seen' = chan.version
    /\ params' = chan.value
    /\ simulation' = SimulationStart(simulation, chan.value)
    /\ waited' = "woken"
    /\ ncycles' = ncycles + 1
    /\ BeginCycle
    /\ UNCHANGED <<unit_vars, instance_vars, mpc, listen_vars, remainder, elapsed, inflight, last_publish>>

\* A stop branch that treats a stop with nothing running as an error and
\* returns from simulate.
SimApplyStopStrict ==
    /\ mpc = "select" /\ spc = "wait" /\ ChangedReady
    /\ chan.value.devices = 0
    /\ seen' = chan.version
    /\ params' = chan.value
    /\ simulation' = SimulationStop(simulation)
    /\ remainder' = chan.value.wait_time
    /\ waited' = "woken"
    /\ log_sim' = IF Len(simulation.devices) = 0
                  THEN "Not running" ELSE "Stopping simulation."
    /\ spc' = IF Len(simulation.devices) = 0 THEN "done" ELSE "sleep"
    /\ UNCHANGED <<unit_vars, instance_vars, elapsed, inflight, mpc, listen_vars, it, out, last_publish, ncycles>>

\* simulate: the change branch with devices = 0.
SimApplyStop ==
    /\ mpc = "select" /\ spc = "wait" /\ ChangedReady
    /\ chan.value.devices = 0
    /\ seen' = chan.version
    /\ params' = chan.value
    /\ simulation' = SimulationStop(simulation)
    /\ remainder' = chan.value.wait_time
    /\ waited' = "woken"
    /\ log_sim' = "Stopping simulation."
    /\ spc' = "sleep"
    /\ UNCHANGED <<unit_vars, instance_vars, elapsed, inflight, mpc, listen_vars, it, out, last_publish, ncycles>>

\* simulate: sleep(1 ms), then continue.
SimSleep ==
    /\ mpc = "select" /\ spc = "sleep"
    /\ spc' = "wait"
    /\ waited' = "tick"
    /\ UNCHANGED <<unit_vars, instance_vars, mpc, listen_vars, seen, params, remainder, elapsed, inflight, simulation, it,
                   out, last_publish, log_sim, ncycles>>

\* simulate: the timeout elapses first, on into the cycle.
SimTimeout ==
    /\ mpc = "select" /\ spc = "wait" /\ ~ChangedReady
    /\ remainder < DurationMax
    /\ Len(simulation.devices) > 0 => ncycles < MaxCycles
    /\ ncycles' = IF Len(simulation.devices) > 0 THEN ncycles + 1 ELSE ncycles
    /\ waited' = IF remainder = 0 THEN "zero" ELSE "timer"
    /\ BeginCycle
    /\ UNCHANGED <<unit_vars, instance_vars, mpc, listen_vars, seen, params, remainder, elapsed, inflight, simulation,
                   last_publish>>

\* A for loop that looks at the channel before each publish and applies a
\* pending start at once.
SimPublishPolling ==
    /\ mpc = "select" /\ spc = "publish" /\ IterHasNext(simulation, it)
    /\ IF chan.version # seen /\ chan.value.devices > 0
       THEN /\ seen' = chan.version
            /\ params' = chan.value
            /\ simulation' = SimulationStart(simulation, chan.value)
            /\ it' = SimulationIter
            /\ UNCHANGED <<out, last_publish, spc, log_sim>>
       ELSE /\ out' = Append(out, IterItem(simulation, IterSeek(simulation, it)))
            /\ simulation' = IterAdvance(simulation, IterSeek(simulation, it))
            /\ it' = [dev |-> IterSeek(simulation, it).dev,
                      nxt |-> IterSeek(simulation, it).nxt + 1]
            /\ \E ok \in BOOLEAN :
                /\ last_publish' = IF ok THEN "ok" ELSE "err"
                /\ spc' = IF ok THEN "publish" ELSE "done"
                /\ log_sim' = IF ok THEN log_sim ELSE "Failed to publish"
            /\ UNCHANGED <<seen, params>>
    /\ UNCHANGED <<unit_vars, instance_vars, mpc, listen_vars, remainder, elapsed, inflight, waited, ncycles>>

\* A for loop that logs a publish error and goes on.
SimPublishIgnoreError ==
    /\ mpc = "select" /\ spc = "publish" /\ IterHasNext(simulation, it)
    /\ out' = Append(out, IterItem(simulation, IterSeek(simulation, it)))
    /\ simulation' = IterAdvance(simulation, IterSeek(simulation, it))
    /\ it' = [dev |-> IterSeek(simulation, it).dev,
              nxt |-> IterSeek(simulation, it).nxt + 1]
    /\ \E ok \in BOOLEAN :
        /\ last_publish' = IF ok THEN "ok" ELSE "err"
        /\ spc' = "publish"
        /\ log_sim' = IF ok THEN log_sim ELSE "Failed to publish"
    /\ UNCHANGED <<unit_vars, instance_vars, mpc, listen_vars, seen, params, remainder, elapsed, inflight, waited, ncycles>>

\* A for loop that hands each pair to publish without awaiting the future.
SimPublishDetached ==
    /\ mpc = "select" /\ spc = "publish" /\ IterHasNext(simulation, it)
    /\ out' = Append(out, IterItem(simulation, IterSeek(simulation, it)))
    /\ simulation' = IterAdvance(simulation, IterSeek(simulation, it))
    /\ it' = [dev |-> IterSeek(simulation, it).dev,
              nxt |-> IterSeek(simulation, it).nxt + 1]
    /\ inflight' = inflight + 1
    /\ UNCHANGED <<unit_vars, instance_vars, mpc, listen_vars, seen, params, remainder,
                   elapsed, waited, ncycles, last_publish, spc, log_sim>>

\* simulate: one turn of the for loop, the iterator yields and the pair is
\* published; publish is awaited, so its future has resolved when the turn
\* ends; an error of publish returns from simulate.
SimPublish ==
    /\ mpc = "select" /\ spc = "publish" /\ IterHasNext(simulation, it)
    /\ out' = Append(out, IterItem(simulation, IterSeek(simulation, it)))
    /\ simulation' = IterAdvance(simulation, IterSeek(simulation, it))
    /\ it' = [dev |-> IterSeek(simulation, it).dev,
              nxt |-> IterSeek(simulation, it).nxt + 1]
    /\ \E ok \in BOOLEAN :
        /\ last_publish' = IF ok THEN "ok" ELSE "err"
        /\ spc' = IF ok THEN "publish" ELSE "done"
        /\ log_sim' = IF ok THEN log_sim ELSE "Failed to publish"
    /\ UNCHANGED <<unit_vars, instance_vars, mpc, listen_vars, seen, params, remainder, elapsed, inflight, waited, ncycles>>

Max(a, b) == IF a > b THEN a ELSE b

\* A subtraction of durations that does not stop at zero.
DurationSub(a, b) == a - b

\* Duration::saturating_sub
SaturatingSub(a, b) == Max(0, a - b)

\* simulate: the iterator is exhausted; the remainder of the interval.
SimEndCycle ==
    /\ mpc = "select" /\ spc = "publish" /\ ~IterHasNext(simulation, it)
    /\ \E e \in 0..MaxElapsed :
        /\ elapsed' = e
        /\ remainder' = SaturatingSub(params.wait_time, e)
        /\ log_sim' = IF SaturatingSub(params.wait_time, e) = 0
                      THEN "Messages cannot be sent fast enough"
                      ELSE "Sleeping"
    /\ spc' = "wait"
    /\ UNCHANGED <<unit_vars, instance_vars, inflight, mpc, listen_vars, seen, params, simulation, it, out,
                   last_publish, waited, ncycles>>

\* main: select returns when either task has finished; main returns and the
\* runtime drops the other task at the await it is suspended in.
MainExit ==
    /\ mpc = "select" /\ (lpc = "done" \/ spc = "done")
    /\ mpc' = "exited"
    /\ lpc' = "done"
    /\ chan' = WatchClose(chan)
    /\ spc' = IF spc = "done" THEN "done" ELSE "cancelled"
    /\ UNCHANGED <<unit_vars, instance_vars, last_cmd, ncmds, sent, seen, params, remainder, elapsed, inflight,
                   simulation, it, out, last_publish, log_sim, waited, ncycles>>

Next ==
    \/ ListenPublish \/ ListenDisconnect \/ ListenError \/ ListenOther
    \/ SimApplyStart \/ SimApplyStop \/ SimSleep \/ SimTimeout
    \/ SimPublish \/ SimEndCycle
    \/ MainExit

Spec == Init /\ [][Next]_vars

(***************************************************************************)
(* Two independent Simulation instances, each driven as `simulate` drives  *)
(* its own: start(params), then full cycles drained from iter().           *)
(***************************************************************************)
\* The parameters the instances are started with.
InstanceParams ==
    { [devices |-> 1, data_points |-> 3, wait_time |-> 1, seed |-> 1],
      [devices |-> 1, data_points |-> 4, wait_time |-> 1, seed |-> 1],
      [devices |-> 2, data_points |-> 3, wait_time |-> 1, seed |-> 2],
      [devices |-> 2, data_points |-> 4, wait_time |-> 1, seed |-> 1],
      [devices |-> 2, data_points |-> 0, wait_time |-> 1, seed |-> 1] }

\* The for loop over simulation.iter(), to its end: the pool after the
\* cycle and the pairs it yielded.
RECURSIVE DrainCycle(_, _, _)
DrainCycle(sim, iter, acc) ==
    IF ~IterHasNext(sim, iter) THEN [sim |-> sim, out |-> acc]
    ELSE DrainCycle(IterAdvance(sim, IterSeek(sim, iter)),
                    [dev |-> IterSeek(sim, iter).dev,
                     nxt |-> IterSeek(sim, iter).nxt + 1],
                    Append(acc, IterItem(sim, IterSeek(sim, iter))))

StartA ==
    /\ appA < MaxApplies
    /\ \E p \in InstanceParams :
        /\ simA' = SimulationStart(simA, p)
        /\ parA' = p
    /\ appA' = appA + 1
    /\ preA' = cycA
    /\ cycA' = 0
    /\ outA' = <<>>
    /\ UNCHANGED <<unit_vars, main_vars, now, simB, parB, appB, cycB, outB>>

CycleA ==
    /\ cycA < MaxRuns
    /\ simA' = DrainCycle(simA, SimulationIter, <<>>).sim
    /\ outA' = DrainCycle(simA, SimulationIter, <<>>).out
    /\ cycA' = cycA + 1
    /\ \E t \in 0..MaxClock : now' = t
    /\ UNCHANGED <<unit_vars, main_vars, parA, appA, preA, simB, parB, appB, cycB, outB>>

StartB ==
    /\ appB = 0
    /\ \E p \in InstanceParams :
        /\ simB' = SimulationStart(simB, p)
        /\ parB' = p
    /\ appB' = 1
    /\ cycB' = 0
    /\ outB' = <<>>
    /\ UNCHANGED <<unit_vars, main_vars, now, simA, parA, appA, preA, cycA, outA>>

CycleB ==
    /\ cycB < MaxRuns
    /\ simB' = DrainCycle(simB, SimulationIter, <<>>).sim
    /\ outB' = DrainCycle(simB, SimulationIter, <<>>).out
    /\ cycB' = cycB + 1
    /\ \E t \in 0..MaxClock : now' = t
    /\ UNCHANGED <<unit_vars, main_vars, parB, appB, simA, parA, appA, preA, cycA, outA>>

NextInstances == StartA \/ CycleA \/ StartB \/ CycleB

SpecInstances == Init /\ [][NextInstances]_vars

(***************************************************************************)
(* One generator on its own: create, then generate again and again, as the *)
(* tests of generator.rs drive it.                                         *)
(***************************************************************************)
GeneratorTypes == {"noise", "sensor", "status"}

GeneratorCreate ==
    /\ gen.kind = "none"
    /\ \E generator_type \in GeneratorTypes, seed \in 0..(RngMod - 1) :
        gen' = create(generator_type, seed)
    /\ UNCHANGED <<main_vars, instance_vars, parse_vars, overflow_checks, device_vars,
                   control_vars, calls, phase, drawn_at>>

\* One call of generate; a status generator draws exactly when it takes a
\* value from its stream.
GeneratorGenerate ==
    /\ gen.kind # "none" /\ calls < MaxCalls
    /\ gen' = generate(gen).gen
    /\ calls' = calls + 1
    /\ phase' = gen.index
    /\ drawn_at' = IF gen.kind = "status" /\ generate(gen).gen.rng # gen.rng
                   THEN drawn_at \cup {calls + 1} ELSE drawn_at
    /\ UNCHANGED <<main_vars, instance_vars, parse_vars, overflow_checks, device_vars,
                   control_vars>>

NextGenerator == GeneratorCreate \/ GeneratorGenerate

SpecGenerator == Init /\ [][NextGenerator]_vars

(***************************************************************************)
(* One Device of device.rs on its own: Device::new for a Target, then work *)
(* again and again, as test_publish drives it.                             *)
(***************************************************************************)
\* The numbers of data points of the Targets: the small ones, and the ones
\* around the overflow of 2 * data_points.
DataPointInputs == (0..MaxDataPoints) \cup {U16 \div 2 - 1, U16 \div 2, U16 - 1}

DeviceCreate ==
    /\ device.state = "none"
    /\ \E seed \in 0..(RngMod - 1), data_points \in DataPointInputs,
          checks \in BOOLEAN :
        /\ target' = [seed |-> seed, data_points |-> data_points,
                      wait_time_secs |-> 0]
        /\ overflow_checks' = checks
        /\ device' = DeviceNewForTarget(1, target', checks)
    /\ UNCHANGED <<main_vars, instance_vars, parse_vars, generator_vars, control_vars,
                   published, works>>

DeviceWork ==
    /\ device.state = "built" /\ works < MaxWorks
    /\ published' = DeviceWorkPublishes(device)
    /\ device' = [device EXCEPT !.generators = DeviceWorkGenerators(device)]
    /\ works' = works + 1
    /\ UNCHANGED <<main_vars, instance_vars, parse_vars, generator_vars, control_vars,
                   target, overflow_checks>>

NextDevice == DeviceCreate \/ DeviceWork

SpecDevice == Init /\ [][NextDevice]_vars

(***************************************************************************)
(* parse of commands.rs on its own, as the tests of commands.rs call it:   *)
(* on command strings made of a first token and up to MaxArgs arguments.   *)
(***************************************************************************)
\* The first tokens and the argument tokens of the command strings.
FirstTokens ==
    { <<"s","t","a","r","t">>, <<"s","t","o","p">>, <<"f","o","o">> }

ArgTokens ==
    { <<"0">>, <<"1","2">>, <<"6","5","5","3","5">>, <<"6","5","5","3","6">>,
      <<"f","o","o">> }

\* The separators between the tokens: runs of whitespace.
Separators == { <<" ">>, <<"\t", " ">> }

RECURSIVE JoinTokens(_, _)
JoinTokens(tokens, sep) ==
    IF tokens = <<>> THEN <<>>
    ELSE IF Len(tokens) = 1 THEN tokens[1]
    ELSE tokens[1] \o sep \o JoinTokens(Tail(tokens), sep)

\* The token sequences with n arguments: a first token and its arguments,
\* and with no argument also the sequence of no token.
TokenSeqs(n) ==
    (IF n = 0 THEN {<<>>} ELSE {}) \cup
    UNION { { <<first>> \o args : args \in [1..n -> ArgTokens] } :
            first \in FirstTokens }

\* The one call of parse of a run.
ParseCommand ==
    /\ parsed.tag = "none"
    /\ \E n \in 0..MaxArgs, sep \in Separators : \E tokens \in TokenSeqs(n) :
        /\ cmd_input' = JoinTokens(tokens, sep)
        /\ parsed' = parse(JoinTokens(tokens, sep))
    /\ UNCHANGED <<main_vars, instance_vars, overflow_checks, generator_vars,
                   device_vars, control_vars>>

NextParse == ParseCommand

SpecParse == Init /\ [][NextParse]_vars

(***************************************************************************)
(* control.rs: a Control and the device threads it spawns, each running    *)
(* Device::run of device.rs. The caller of Control::run is one thread; a   *)
(* panic in it ends the run of the Control.                                *)
(***************************************************************************)
\* The Targets of the Control runs with the builds they run in: one whose
\* devices hold two generators, in either build, and one whose number of
\* data points overflows when doubled, in the build that checks overflow.
ControlTargets ==
    ({[seed |-> 1, data_points |-> 2, wait_time_secs |-> 1]} \X BOOLEAN)
    \cup {<<[seed |-> 1, data_points |-> U16 \div 2, wait_time_secs |-> 1], TRUE>>}

\* The commands handed to Control::run.
ControlCommands ==
    {[tag |-> "Stop"]}
    \cup {[tag |-> "Start", devices |-> d, data_points |-> 1, wait_time_secs |-> 1] :
            d \in 0..MaxDevices}

\* A thread as thread::spawn leaves it: its closure has not run yet.
ThreadSpawned ==
    [pc |-> "new", inbox |-> 0, device |-> [state |-> "none"], pending |-> 0,
     works |-> 0]

\* The receiver of a thread's channel lives until the thread ends.
ReceiverLives(k) == thr[k].pc \notin {"exited", "panicked"}

\* Control::new
ControlNew ==
    /\ cpc = "none"
    /\ \E tb \in ControlTargets :
        /\ control' = [target |-> tb[1], threads |-> <<>>, channels |-> <<>>]
        /\ overflow_checks' = tb[2]
    /\ cpc' = "idle"
    /\ UNCHANGED <<main_vars, instance_vars, parse_vars, generator_vars, device_vars,
                   ccall, ncalls, thr>>

\* Control::run: both arms begin with the channel loop of stop, Start through
\* the call of stop at the head of start.
ControlRun ==
    /\ cpc = "idle" /\ ncalls < MaxControlCalls
    /\ \E cmd \in ControlCommands :
        ccall' = [cmd |-> cmd, before |-> Len(control.threads)]
    /\ ncalls' = ncalls + 1
    /\ cpc' = "stop_send"
    /\ UNCHANGED <<main_vars, instance_vars, parse_vars, overflow_checks, generator_vars,
                   device_vars, control, thr>>

\* stop: one turn of the loop over channels.drain(..): send(true).unwrap().
\* The send fails when the receiver is gone, and the panic of unwrap drops
\* the sender and the rest of the drain.
StopSend ==
    /\ cpc = "stop_send" /\ control.channels # <<>>
    /\ IF ReceiverLives(Head(control.channels))
       THEN /\ thr' = [thr EXCEPT ![Head(control.channels)].inbox = @ + 1]
            /\ control' = [control EXCEPT !.channels = Tail(@)]
            /\ cpc' = cpc
       ELSE /\ control' = [control EXCEPT !.channels = <<>>]
            /\ cpc' = "panicked"
            /\ thr' = thr
    /\ UNCHANGED <<main_vars, instance_vars, parse_vars, overflow_checks, generator_vars,
                   device_vars, ccall, ncalls>>

\* stop: the loop over the channels is through.
StopSendDone ==
    /\ cpc = "stop_send" /\ control.channels = <<>>
    /\ cpc' = "stop_join"
    /\ UNCHANGED <<main_vars, instance_vars, parse_vars, overflow_checks, generator_vars,
                   device_vars, control, ccall, ncalls, thr>>

\* A stop that drops the join handle instead of joining the thread.
StopJoinDetached ==
    /\ cpc = "stop_join" /\ control.threads # <<>>
    /\ control' = [control EXCEPT !.threads = Tail(@)]
    /\ UNCHANGED <<main_vars, instance_vars, parse_vars, overflow_checks, generator_vars,
                   device_vars, cpc, ccall, ncalls, thr>>

\* stop: one turn of the loop over threads.drain(..): join returns once the
\* thread has ended, with an error logged when it panicked.
StopJoin ==
    /\ cpc = "stop_join" /\ control.threads # <<>>
    /\ ~ReceiverLives(Head(control.threads))
    /\ control' = [control EXCEPT !.threads = Tail(@)]
    /\ UNCHANGED <<main_vars, instance_vars, parse_vars, overflow_checks, generator_vars,
                   device_vars, cpc, ccall, ncalls, thr>>

\* stop returns: to the caller of run, or into start, which divides by the
\* number of threads before its loop.
StopReturn ==
    /\ cpc = "stop_join" /\ control.threads = <<>>
    /\ cpc' = IF ccall.cmd.tag = "Stop" THEN "idle"
              ELSE IF ccall.cmd.devices = 0 THEN "panicked"
              ELSE "start_spawn"
    /\ thr' = IF ccall.cmd.tag = "Start" /\ ccall.cmd.devices > 0 THEN <<>> ELSE thr
    /\ UNCHANGED <<main_vars, instance_vars, parse_vars, overflow_checks, generator_vars,
                   device_vars, control, ccall, ncalls>>

\* start: one turn of the loop over 0..num_threads.
StartSpawn ==
    /\ cpc = "start_spawn" /\ Len(control.threads) < ccall.cmd.devices
    /\ control' = [control EXCEPT !.channels = Append(@, Len(thr) + 1),
                                  !.threads = Append(@, Len(thr) + 1)]
    /\ thr' = Append(thr, ThreadSpawned)
    /\ UNCHANGED <<main_vars, instance_vars, parse_vars, overflow_checks, generator_vars,
                   device_vars, cpc, ccall, ncalls>>

\* start returns.
StartReturn ==
    /\ cpc = "start_spawn" /\ Len(control.threads) = ccall.cmd.devices
    /\ cpc' = "idle"
    /\ UNCHANGED <<main_vars, instance_vars, parse_vars, overflow_checks, generator_vars,
                   device_vars, control, ccall, ncalls, thr>>

\* A device thread: create_device, which may panic in Device::new.
ThreadCreate(k) ==
    /\ thr[k].pc = "new"
    /\ thr' = [thr EXCEPT
                 ![k].device = DeviceNewForTarget(k - 1, control.target, overflow_checks),
                 ![k].pc = IF DeviceNewForTarget(k - 1, control.target,
                                                 overflow_checks).state = "built"
                           THEN "work" ELSE "panicked"]
    /\ UNCHANGED <<main_vars, instance_vars, parse_vars, overflow_checks, generator_vars,
                   device_vars, control, cpc, ccall, ncalls>>

\* Device::work up to join_all: every publish of the cycle is issued.
ThreadWork(k) ==
    /\ thr[k].pc = "work"
    /\ thr' = [thr EXCEPT
                 ![k].device.generators = DeviceWorkGenerators(thr[k].device),
                 ![k].pending = Len(DeviceWorkPublishes(thr[k].device)),
                 ![k].pc = "join"]
    /\ UNCHANGED <<main_vars, instance_vars, parse_vars, overflow_checks, generator_vars,
                   device_vars, control, cpc, ccall, ncalls>>

\* One of the publishes join_all waits for resolves.
ThreadPublishResolved(k) ==
    /\ thr[k].pc = "join" /\ thr[k].pending > 0
    /\ thr' = [thr EXCEPT ![k].pending = @ - 1]
    /\ UNCHANGED <<main_vars, instance_vars, parse_vars, overflow_checks, generator_vars,
                   device_vars, control, cpc, ccall, ncalls>>

\* A work that returns without waiting for the publishes it issued.
ThreadWorkDoneUnjoined(k) ==
    /\ thr[k].pc = "join"
    /\ thr' = [thr EXCEPT ![k].pc = "nap", ![k].works = @ + 1]
    /\ UNCHANGED <<main_vars, instance_vars, parse_vars, overflow_checks, generator_vars,
                   device_vars, control, cpc, ccall, ncalls>>

\* join_all returns, work returns, run goes on to nap_or_stop.
ThreadWorkDone(k) ==
    /\ thr[k].pc = "join" /\ thr[k].pending = 0
    /\ thr' = [thr EXCEPT ![k].pc = "nap", ![k].works = @ + 1]
    /\ UNCHANGED <<main_vars, instance_vars, parse_vars, overflow_checks, generator_vars,
                   device_vars, control, cpc, ccall, ncalls>>

\* nap_or_stop: recv_timeout receives the stop signal, run breaks and the
\* thread ends.
ThreadNapStop(k) ==
    /\ thr[k].pc = "nap" /\ thr[k].inbox > 0
    /\ thr' = [thr EXCEPT ![k].pc = "exited", ![k].inbox = @ - 1]
    /\ UNCHANGED <<main_vars, instance_vars, parse_vars, overflow_checks, generator_vars,
                   device_vars, control, cpc, ccall, ncalls>>

\* nap_or_stop: recv_timeout returns without a message, run loops.
ThreadNapTimeout(k) ==
    /\ thr[k].pc = "nap" /\ thr[k].inbox = 0 /\ thr[k].works < MaxWorks
    /\ thr' = [thr EXCEPT ![k].pc = "work"]
    /\ UNCHANGED <<main_vars, instance_vars, parse_vars, overflow_checks, generator_vars,
                   device_vars, control, cpc, ccall, ncalls>>

NextControl ==
    \/ ControlNew \/ ControlRun
    \/ StopSend \/ StopSendDone \/ StopJoin \/ StopReturn
    \/ StartSpawn \/ StartReturn
    \/ \E k \in 1..Len(thr) :
        \/ ThreadCreate(k) \/ ThreadWork(k) \/ ThreadPublishResolved(k)
        \/ ThreadWorkDone(k) \/ ThreadNapStop(k) \/ ThreadNapTimeout(k)

SpecControl == Init /\ [][NextControl]_vars

\* One step of the k-th device thread, when there is one.
ThreadStep(k) ==
    /\ k \in 1..Len(thr)
    /\ \/ ThreadCreate(k) \/ ThreadWork(k) \/ ThreadPublishResolved(k)
       \/ ThreadWorkDone(k) \/ ThreadNapStop(k) \/ ThreadNapTimeout(k)

\* One step of Control::stop.
StopStep == StopSend \/ StopSendDone \/ StopJoin \/ StopReturn

\* The Control and its threads under a fair scheduler: the thread in stop
\* keeps running, every device thread keeps running, and every publish
\* resolves.
SpecControlFair ==
    /\ Init /\ [][NextControl]_vars
    /\ WF_vars(StopStep)
    /\ \A k \in 1..MaxDevices : WF_vars(ThreadStep(k))

(***************************************************************************)
(* The tasks of main.rs and a Control with its device threads, each        *)
(* running on its own: the tasks of main.rs while no Control has been      *)
(* made, a Control while the tasks of main.rs have not moved.              *)
(***************************************************************************)
NextStop ==
    \/ InitControl /\ Next
    \/ InitMain /\ NextControl

SpecStop == Init /\ [][NextStop]_vars

(***************************************************************************)
(* Properties of the tasks of main.rs, checked under Spec.                 *)
(***************************************************************************)
\* The identity of the pool: the names of its devices and of their
\* generators, without the generators' counters.
PoolNames(sim) ==
    [k \in 1..Len(sim.devices) |->
        [name |-> sim.devices[k].name,
         generators |-> [j \in 1..Len(sim.devices[k].generators) |->
                            sim.devices[k].generators[j].name]]]

\* C1: while a cycle is being published, no step applies a configuration:
\* the parameters held, the version seen and the devices of the pool stay
\* those the cycle began with, whatever listen sends meanwhile.
C1_NoApplyDuringCycle ==
    [][spc = "publish" =>
         /\ params' = params
         /\ seen' = seen
         /\ PoolNames(simulation') = PoolNames(simulation)]_vars

\* A cycle has been drained to its end while a different configuration was
\* waiting in the channel.
C1_Witness ==
    /\ spc = "publish"
    /\ chan.version # seen
    /\ chan.value # params
    /\ Len(out) >= 1
    /\ ~IterHasNext(simulation, it)

\* The value of the most recent successful send (the initial value of the
\* channel when there was none).
LatestSent == IF sent = <<>> THEN SimulationParametersDefault ELSE sent[Len(sent)]

\* C2: every step in which simulate reads the channel leaves it holding the
\* value of the most recent successful send, with every send marked seen.
C2_LatestWins ==
    [][(spc = "wait" /\ ChangedReady /\ spc' \in {"publish", "sleep"}) =>
         /\ params' = LatestSent
         /\ seen' = Len(sent)]_vars

\* Two different starts were sent before simulate read; only one cycle was
\* ever started, and with the second.
C2_Witness ==
    /\ Len(sent) = 2
    /\ sent[1] # sent[2]
    /\ sent[1].devices > 0 /\ sent[2].devices > 0
    /\ seen = 2
    /\ params = sent[2]
    /\ ncycles = 1
    /\ spc = "publish"

\* C3: the pool holds exactly as many devices as the parameters simulate
\* holds say: none initially and after a stop, p.devices after start(p),
\* and so whenever a cycle begins.
C3_PoolSize == Len(simulation.devices) = params.devices

\* A cycle begins over a pool of two devices.
C3_Witness ==
    /\ spc = "publish"
    /\ it = SimulationIter
    /\ params.devices = 2
    /\ Len(simulation.devices) = 2

\* C4: a publish that fails ends simulate, and after a failed publish
\* nothing more is handed to publish and no cycle is started.
C4_PublishErrorFatal ==
    [][/\ last_publish' = "err" => spc' = "done"
       /\ last_publish = "err" =>
            (out' = out /\ ncycles' = ncycles /\ last_publish' = "err")]_vars

\* A publish failed with data points of the cycle still to come.
C4_Witness ==
    /\ last_publish = "err"
    /\ spc = "done"
    /\ IterHasNext(simulation, it)

\* C5: once the sender is dropped, simulate starts no further cycle.
C5_NoCycleAfterClose ==
    [][(chan.closed /\ spc \in {"wait", "sleep"}) => spc' # "publish"]_vars

\* C6: after simulate has applied a configuration with devices = 0 it is
\* not in the publish phase while it holds that configuration.
C6_NoCycleWhileStopped ==
    (seen > 0 /\ params.devices = 0) => spc # "publish"

\* C7: while simulate holds an applied configuration with devices = 0, no
\* wait of it ends after zero time and no overload is logged.
C7_NoBusyLoopWhileStopped ==
    (seen > 0 /\ params.devices = 0) =>
        (waited # "zero" /\ log_sim # "Messages cannot be sent fast enough")

\* C8: a payload that is no valid command sends nothing: the channel, the
\* parameters simulate holds, its pool and its remaining wait are as they
\* were, and listen goes on polling.
C8_InvalidInputIgnored ==
    [][(ncmds' = ncmds + 1 /\ last_cmd' \notin {"Start", "Stop"}) =>
         /\ chan' = chan
         /\ sent' = sent
         /\ params' = params
         /\ simulation' = simulation
         /\ remainder' = remainder
         /\ lpc' = "poll"]_vars

\* An unusable payload arrived while the simulation was running and
\* simulate had nothing to read.
C8_Witness ==
    /\ last_cmd \in {"NotUtf8", "EmptyCommand", "UnknownCommand", "InvalidArguments"}
    /\ params.devices > 0
    /\ seen = chan.version
    /\ spc = "wait"
    /\ lpc = "poll"

(***************************************************************************)
(* Properties of two Simulation instances, checked under SpecInstances.    *)
(***************************************************************************)
\* The (topic, value) pairs of a cycle, without the timestamps.
Pairs(cycle) == [k \in 1..Len(cycle) |-> <<cycle[k].topic, cycle[k].data.value>>]

C10_FullRebuild ==
    (appA >= 2 /\ appB = 1 /\ parA = parB /\ cycA = cycB) =>
        (simA = simB /\ Pairs(outA) = Pairs(outB))

\* Instance A was restarted after at least one cycle and has made a cycle
\* since, as has instance B.
C10_Witness ==
    /\ appA = 2 /\ preA >= 1
    /\ appB = 1 /\ parA = parB
    /\ cycA = 1 /\ cycB = 1
    /\ Len(outA) >= 3

(***************************************************************************)
(* C11: `stop` and `start 0 0 0` are the same command to `simulate`: once  *)
(* either is handled the pool is empty and the remaining wait is the one   *)
(* `stop` leaves, and from then on no cycle runs and no overload is        *)
(* reported until another command arrives.                                 *)
(***************************************************************************)
\* What parse makes of "start 0 0 0".
StartZeroParams ==
    parse(<<"s","t","a","r","t"," ","0"," ","0"," ","0">>).params

C11_StopEqualsStartZero ==
    (seen > 0 /\ params \in {SimulationParametersDefault, StartZeroParams})
        => /\ Len(simulation.devices) = 0
           /\ spc \in {"wait", "sleep", "cancelled"}
           /\ remainder = SimulationParametersDefault.wait_time
           /\ log_sim # "Messages cannot be sent fast enough"

(***************************************************************************)
(* C16: at the end of every cycle the remaining wait is                    *)
(* max(0, wait_time - elapsed); the overload warning is logged exactly     *)
(* when it is 0; the loop goes on; after a remaining wait of 0 the next    *)
(* cycle starts without waiting, except that a pending configuration is    *)
(* applied first.                                                          *)
(***************************************************************************)
C16_EndOfCycle ==
    (spc = "publish" /\ spc' = "wait")
        => /\ remainder' = Max(0, params.wait_time - elapsed')
           /\ (log_sim' = "Messages cannot be sent fast enough") <=> (remainder' = 0)

C16_AfterOverload ==
    (spc = "wait" /\ remainder = 0 /\ spc' # "wait" /\ mpc' = "select")
        => IF chan.version # seen \/ chan.closed
           THEN seen' = chan.version /\ params' = chan.value /\ waited' = "woken"
           ELSE spc' = "publish" /\ waited' = "zero" /\ out' = <<>>

C16_Overload == [][C16_EndOfCycle /\ C16_AfterOverload]_vars

\* A second cycle over a non-empty pool that began without waiting, after a
\* cycle that took longer than the interval.
C16_Witness ==
    /\ spc = "publish" /\ waited = "zero" /\ ncycles = 2
    /\ elapsed > params.wait_time
    /\ Len(simulation.devices) > 0

(***************************************************************************)
(* C17: the sequence Simulation::iter yields in one publish cycle is the   *)
(* concatenation, in pool order, of each device's data points in generator *)
(* order, one per generator; it is finite for every pool, the empty pool   *)
(* and a pool of devices without data points included.                     *)
(***************************************************************************)
\* The data points of one device: each generator, in order, asked once.
DevicePairs(dev) ==
    [j \in 1..Len(dev.generators) |->
        <<<<dev.name, dev.generators[j].name>>,
          generate(dev.generators[j]).value>>]

RECURSIVE PoolPairs(_)
PoolPairs(devices) ==
    IF devices = <<>> THEN <<>>
    ELSE DevicePairs(Head(devices)) \o PoolPairs(Tail(devices))

C17_IterOrder ==
    [][/\ (cycA' = cycA + 1) => Pairs(outA') = PoolPairs(simA.devices)
       /\ (cycB' = cycB + 1) => Pairs(outB') = PoolPairs(simB.devices)]_vars

\* Instance A made a cycle over the empty pool before its start and one
\* over two devices with four data points each after it; instance B made a
\* cycle over two devices without data points.
C17_Witness ==
    /\ appA = 1 /\ preA >= 1 /\ cycA >= 1
    /\ Len(simA.devices) = 2 /\ Len(outA) = 8
    /\ cycB >= 1 /\ Len(simB.devices) = 2 /\ outB = <<>>

(***************************************************************************)
(* C14: a status generator holds its output for exactly SUSTAIN            *)
(* consecutive calls and draws a new value on the next: counting calls     *)
(* from 1, it draws on the calls 101, 201, 301, ... and on no other.       *)
(***************************************************************************)
C14_StatusSustain ==
    gen.kind = "status"
        => drawn_at = {n \in 1..calls : n > 1 /\ (n - 1) % SUSTAIN = 0}

(***************************************************************************)
(* C15: a sensor generator is back at phase 0 every SPREAD calls: counting *)
(* calls from 0, the call 100 * k is computed with index 0 or 100; the     *)
(* index stays within 0..100.                                              *)
(***************************************************************************)
C15_SensorPeriod ==
    gen.kind = "sensor"
        => /\ gen.index \in 0..SPREAD
           /\ (calls > 0 /\ (calls - 1) % SPREAD = 0) => phase \in {0, SPREAD}

(***************************************************************************)
(* C12: for every number n of data points, create_data_point_generators    *)
(* builds floor(n/3) Status generators, then floor(n/3) Noise generators,  *)
(* then n - 2*floor(n/3) Sensor generators, in this order.                 *)
(***************************************************************************)
C12_PartitionLaw ==
    device.state = "built"
        => LET n == target.data_points
           IN /\ Len(device.generators) = n
              /\ \A k \in 1..Len(device.generators) :
                   device.generators[k].kind =
                       IF k <= n \div 3 THEN "status"
                       ELSE IF k <= 2 * (n \div 3) THEN "noise" ELSE "sensor"

(***************************************************************************)
(* C13: for every number of data points in 0..65535 a Device owns exactly  *)
(* that many generators and each call of work issues exactly that many     *)
(* publishes.                                                              *)
(***************************************************************************)
C13_OnePublishPerDataPoint ==
    device.state # "none"
        => /\ device.state = "built"
           /\ Len(device.generators) = target.data_points
           /\ works > 0 => Len(published) = target.data_points

(***************************************************************************)
(* C18: when Control::start(p) has returned exactly p.devices device       *)
(* threads are running and exactly p.devices stop channels are held, a     *)
(* start while running replacing the threads there were; when              *)
(* Control::stop has returned both numbers are 0; between calls threads    *)
(* and channels have equal length.                                         *)
(***************************************************************************)
\* The device threads that have not ended.
Running == {k \in 1..Len(thr) : ReceiverLives(k)}

C18_ThreadAccounting ==
    cpc = "idle"
        => /\ Len(control.threads) = Len(control.channels)
           /\ ccall.cmd.tag = "Start"
                => /\ Len(control.threads) = ccall.cmd.devices
                   /\ Len(control.channels) = ccall.cmd.devices
                   /\ Cardinality(Running) = ccall.cmd.devices
           /\ ccall.cmd.tag = "Stop"
                => /\ Len(control.threads) = 0
                   /\ Len(control.channels) = 0
                   /\ Cardinality(Running) = 0

(***************************************************************************)
(* C19: Control::run with a Start whose devices is 0 ends every running    *)
(* device thread, leaves no threads and no channels, and returns without   *)
(* a panic, as Control::run(Stop) does.                                    *)
(***************************************************************************)
C19_StartZeroReturns ==
    (ccall.cmd.tag = "Start" /\ ccall.cmd.devices = 0) => cpc # "panicked"

(***************************************************************************)
(* C20: stop is idempotent. Simulation::stop on an empty pool leaves the   *)
(* pool empty; a stop configuration that reaches simulate while it holds   *)
(* the configuration of a stop changes neither pool, parameters nor        *)
(* remaining wait and simulate goes on; Control::stop called with no       *)
(* threads changes neither Control nor any thread and returns.             *)
(***************************************************************************)
\* simulate leaves its wait to apply a configuration with devices = 0.
AppliesStop ==
    /\ mpc' = "select" /\ spc = "wait" /\ spc' # "wait"
    /\ chan.version # seen \/ chan.closed
    /\ chan.value.devices = 0

C20_PoolStop ==
    (AppliesStop /\ Len(simulation.devices) = 0) => simulation' = simulation

C20_SimulateStop ==
    (AppliesStop /\ chan.value = SimulationParametersDefault
       /\ params = SimulationParametersDefault /\ Len(simulation.devices) = 0)
        => /\ spc' = "sleep"
           /\ simulation' = simulation /\ params' = params
           /\ remainder' = remainder /\ ncycles' = ncycles /\ out' = out

C20_ControlStop ==
    (ccall'.cmd.tag = "Stop" /\ ccall'.before = 0)
        => /\ control' = control /\ thr' = thr
           /\ cpc' # "panicked"
           /\ cpc = "stop_join" => cpc' = "idle"

AllDigits(tok) == tok # <<>> /\ \A i \in 1..Len(tok) : IsDigit(tok[i])

C21_ErrorClasses ==
    parsed.tag # "none"
        => LET tokens == split_whitespace(cmd_input)
               args == IF tokens = <<>> THEN <<>> ELSE Tail(tokens)
               expected ==
                   IF tokens = <<>> THEN "EmptyCommand"
                   ELSE IF tokens[1] = <<"s","t","a","r","t">>
                   THEN IF Len(args) \notin {3, 4}
                           \/ \E i \in 1..Len(args) : ~AllDigits(args[i])
                        THEN "InvalidArguments" ELSE "none"
                   ELSE IF tokens[1] = <<"s","t","o","p">>
                   THEN IF args # <<>> THEN "InvalidArguments" ELSE "none"
                   ELSE "UnknownCommand"
           IN parsed.err = expected

(***************************************************************************)
(* C22: every command `start d n c [s]` whose arguments are non-negative   *)
(* integers parses to Start with devices d, data_points n, wait_time c     *)
(* seconds and seed s, or 1 without s: every number of seconds is accepted *)
(* and kept exactly.                                                       *)
(***************************************************************************)
C22_StartAccepted ==
    LET tokens == split_whitespace(cmd_input)
    IN (/\ parsed.tag # "none" /\ tokens # <<>>
        /\ tokens[1] = <<"s","t","a","r","t">>
        /\ Len(tokens) \in {4, 5}
        /\ \A i \in 2..Len(tokens) : AllDigits(tokens[i]))
        => /\ parsed.tag = "Start"
           /\ parsed.params =
                [devices |-> ParseDigits(tokens[2], 1, 0, WordMax),
                 data_points |-> ParseDigits(tokens[3], 1, 0, WordMax),
                 wait_time |-> ParseDigits(tokens[4], 1, 0, WordMax),
                 seed |-> IF Len(tokens) = 5
                          THEN ParseDigits(tokens[5], 1, 0, WordMax) ELSE 1]

(***************************************************************************)
(* C23: the name of a generator is its kind and its index within its kind  *)
(* inside its device, counted from 0; so the names of a device are the     *)
(* same for every seed.                                                    *)
(***************************************************************************)
C23_NameIsKindAndIndex ==
    device.state = "built"
        => \A k \in 1..Len(device.generators) :
             LET g == device.generators[k]
                 index == Cardinality({j \in 1..(k - 1) :
                                         device.generators[j].kind = g.kind})
             IN g.name = <<CASE g.kind = "status" -> "status_"
                              [] g.kind = "noise" -> "noise_"
                              [] g.kind = "sensor" -> "sensor_",
                            index>>

(***************************************************************************)
(* C24: no publish of a cycle is issued before every publish of the cycle  *)
(* before has resolved. A device thread issues the batch of `work` only    *)
(* with no publish pending and goes on to nap_or_stop only when the whole  *)
(* batch has resolved; `simulate` issues a publish and begins a cycle only *)
(* with no publish in flight, each publish being awaited in its turn.      *)
(***************************************************************************)
C24_ThreadBarrier ==
    \A k \in 1..Len(thr) :
        k <= Len(thr')
            => /\ (thr[k].pc = "work" /\ thr'[k].pc = "join") => thr[k].pending = 0
               /\ (thr[k].pc = "join" /\ thr'[k].pc = "nap") => thr[k].pending = 0
               /\ (thr[k].pc = "nap" /\ thr'[k].pc # "nap") => thr[k].pending = 0

C24_SimulateBarrier ==
    /\ Len(out') > Len(out) => (inflight = 0 /\ inflight' = 0)
    /\ (spc # "publish" /\ spc' = "publish") => inflight = 0

C24_BatchBarrier == [][C24_ThreadBarrier /\ C24_SimulateBarrier]_vars

\* A device thread waits for the publishes of its second cycle.
C24_Witness ==
    \E k \in 1..Len(thr) :
        thr[k].pc = "join" /\ thr[k].works = 1 /\ thr[k].pending = 2

(***************************************************************************)
(* C25: a device thread honours a stop signal only at a cycle boundary.    *)
(* Every cycle issues the whole batch, one publish per generator, and is   *)
(* left only when all of it has resolved; the arrival of the signal does   *)
(* not touch the cycle; the thread ends only from nap_or_stop after a      *)
(* complete cycle, and with a signal pending there it ends without         *)
(* another cycle: a signal pending when run starts yields exactly one      *)
(* cycle.                                                                  *)
(***************************************************************************)
C25_ThreadStep(k) ==
    /\ (thr[k].pc = "work" /\ thr'[k].pc # "work")
         => /\ thr'[k].pc = "join"
            /\ thr'[k].pending = Len(thr[k].device.generators)
    /\ (thr[k].pc = "join" /\ thr'[k].pc # "join")
         => thr'[k].pc = "nap" /\ thr[k].pending = 0 /\ thr'[k].works = thr[k].works + 1
    /\ (thr[k].pc = "nap" /\ thr'[k].pc # "nap")
         => thr'[k].pc = IF thr[k].inbox > 0 THEN "exited" ELSE "work"
    /\ (thr'[k].pc = "exited" /\ thr[k].pc # "exited")
         => thr[k].pc = "nap" /\ thr[k].works >= 1 /\ thr[k].pending = 0
    /\ thr'[k].inbox > thr[k].inbox
         => /\ thr'[k].pc = thr[k].pc /\ thr'[k].pending = thr[k].pending
            /\ thr'[k].works = thr[k].works /\ thr'[k].device = thr[k].device

C25_StopAtCycleBoundary ==
    [][\A k \in 1..Len(thr) : k <= Len(thr') => C25_ThreadStep(k)]_vars

\* The stop signal has arrived at a thread that is in the middle of its
\* first cycle, with the whole batch still pending.
C25_Witness ==
    \E k \in 1..Len(thr) :
        /\ thr[k].pc = "join" /\ thr[k].inbox = 1
        /\ thr[k].works = 0 /\ thr[k].pending = 2

(***************************************************************************)
(* C26: Control::stop returns only when every device thread of the start   *)
(* before has ended: at its return, to the caller or into the rest of      *)
(* start, no thread is running and no publish is pending, so after a stop  *)
(* no device publishes, and the threads a restart spawns never run beside  *)
(* threads of the configuration before.                                    *)
(***************************************************************************)
C26_AtReturn ==
    (cpc = "stop_join" /\ cpc' # "stop_join")
        => \A k \in 1..Len(thr) : ~ReceiverLives(k) /\ thr[k].pending = 0

C26_AfterStop ==
    (cpc' = "idle" /\ ccall'.cmd.tag = "Stop")
        => \A k \in 1..Len(thr') : thr'[k].pc \in {"exited", "panicked"}

C26_Restart ==
    (cpc = "start_spawn" /\ Len(thr') > Len(thr))
        => Len(thr) = Len(control.threads)

C26_StopJoinsAll == [][C26_AtReturn /\ C26_AfterStop /\ C26_Restart]_vars

\* A restart: start was called with a thread running, and the thread it has
\* spawned since is in its cycle.
C26_Witness ==
    /\ ccall.cmd.tag = "Start" /\ ccall.before >= 1
    /\ cpc \in {"start_spawn", "idle"}
    /\ \E k \in 1..Len(thr) : thr[k].pc = "join" /\ thr[k].pending > 0

(***************************************************************************)
(* C27: under a fair scheduler, with every publish resolving, a call of    *)
(* Control::stop returns, to the caller of run or into the rest of start,  *)
(* whatever its device threads are doing when it is called.                *)
(***************************************************************************)
\* stop has returned: run is through, start goes on to spawn, or start has
\* panicked at its division after stop had joined every thread.
StopReturned ==
    \/ cpc \in {"idle", "start_spawn"}
    \/ cpc = "panicked" /\ control.threads = <<>>

C27_StopReturns == (cpc = "stop_send") ~> StopReturned

(***************************************************************************)
(* C28: every value a Status generator outputs, those of its first sustain *)
(* window included, is a value drawn from its own seeded stream: once it   *)
(* has been called, its stream has been drawn from and the value it holds  *)
(* is the latest draw.                                                     *)
(***************************************************************************)
C28_StatusValueDrawn ==
    (gen.kind = "status" /\ calls > 0)
        => /\ gen.rng.pos > 0
           /\ gen.current_value = RngGen([gen.rng EXCEPT !.pos = @ - 1])
====
